---- MODULE Spec2Model ----
(***************************************************************************)
(* State machine of the LearnCast wizard (src/app/page.tsx): the React     *)
(* state of the Learncast component, its event handlers, the footer        *)
(* navigation and the generation timeout.                                   *)
(***************************************************************************)
EXTENDS Integers, Sequences, FiniteSets, TLC

VARIABLES step, sources, urls, analogies, emphasis, style, plan,
          showEmphasis, isGenerating, audioUrl, blurListener, timeouts, ret,
          exiting,
          isPlaying, currentTime, duration, playbackRate, audio, nPlayPause,
          req, pcProxy, upstreamCalls, response, res

\* The audio player state of the component (page.tsx 38-41).
playback == <<isPlaying, currentTime, duration, playbackRate>>

\* The player state, what the handlers have done to the audio element
\* behind audioRef, and the number of handlePlayPause calls made with an
\* element behind audioRef.
playerVars == <<playback, audio, nPlayPause>>

\* One request to a proxy route, the handler's position, the requests it
\* sent upstream, the upstream's answer and the responses it sent.
proxyVars == <<req, pcProxy, upstreamCalls, response, res>>

\* The wizard state and the value returned by the last function call.
wizardVars == <<step, sources, urls, analogies, emphasis, style, plan,
                showEmphasis, isGenerating, audioUrl, blurListener, timeouts, ret,
                exiting>>

vars == <<step, sources, urls, analogies, emphasis, style, plan,
          showEmphasis, isGenerating, audioUrl, blurListener, timeouts, ret,
          exiting, playerVars, proxyVars>>

\* The form fields of the wizard.
formFields == <<sources, urls, analogies, emphasis, style, plan>>

----------------------------------------------------------------------------
\* Bounds of the model.

\* Longest text a user types into a textarea of the running wizard.
MaxTyped == 1

\* Longest text handed to isStepComplete when it is checked as a function.
MaxStrLen == 2

\* Most files one upload selects.
MaxFiles == 1

\* Most generation timeouts outstanding at once.
MaxTimeouts == 2

\* Longest media resource, in seconds.
MaxTime == 3

\* Most handlePlayPause calls counted on the audio element.
MaxCalls == 4

\* Largest number of seconds handed to formatTime.
MaxSeconds == 600

----------------------------------------------------------------------------
\* Values.

\* Characters of a text: one white-space character and one other.
Chars == {" ", "x"}

FileNames == {"a.pdf"}

RECURSIVE SeqsUpTo(_, _)
SeqsUpTo(S, n) ==
  IF n = 0 THEN {<<>>}
  ELSE LET shorter == SeqsUpTo(S, n - 1)
       IN  shorter \cup {Append(s, c) : s \in {t \in shorter : Len(t) = n - 1}, c \in S}

TypedTexts == SeqsUpTo(Chars, MaxTyped)
Texts == SeqsUpTo(Chars, MaxStrLen)
FileLists == SeqsUpTo(FileNames, MaxFiles)

podcastStyles == {"casual", "professional", "educational", "entertaining"}
Plans == {"stingy", "sigma"}

\* steps.length
NumSteps == 7

GeneratedUrl == "https://example.com/generated-podcast.mp3"

----------------------------------------------------------------------------
\* String.prototype.trim as page.tsx uses it: strip leading and trailing
\* white space.

IsWhiteSpace(c) == c = " "

RECURSIVE trimStart(_)
trimStart(s) ==
  IF s = <<>> THEN <<>>
  ELSE IF IsWhiteSpace(Head(s)) THEN trimStart(Tail(s))
  ELSE s

RECURSIVE trimEnd(_)
trimEnd(s) ==
  IF s = <<>> THEN <<>>
  ELSE IF IsWhiteSpace(s[Len(s)]) THEN trimEnd(SubSeq(s, 1, Len(s) - 1))
  ELSE s

trim(s) == trimEnd(trimStart(s))

----------------------------------------------------------------------------
\* isStepComplete (page.tsx 164-179).

\* isStepComplete comparing the texts without trimming them.
isStepComplete_NoTrim(stepIndex) ==
  CASE stepIndex = 0 -> TRUE
    [] stepIndex = 1 -> Len(sources) > 0 \/ urls # <<>>
    [] stepIndex = 2 -> analogies # <<>> /\ (~showEmphasis \/ emphasis # <<>>)
    [] stepIndex = 3 -> style # ""
    [] stepIndex = 4 -> plan # ""
    [] OTHER -> FALSE

isStepComplete(stepIndex) ==
  CASE stepIndex = 0 -> TRUE
    [] stepIndex = 1 -> Len(sources) > 0 \/ trim(urls) # <<>>
    [] stepIndex = 2 -> trim(analogies) # <<>> /\ (~showEmphasis \/ trim(emphasis) # <<>>)
    [] stepIndex = 3 -> style # ""
    [] stepIndex = 4 -> plan # ""
    [] OTHER -> FALSE

----------------------------------------------------------------------------
\* The card on screen (page.tsx 441-477). The card is keyed by step inside
\* <AnimatePresence mode="wait"> with an exit transition of 0.3 s: when
\* step changes, the card of the old step stays mounted, with the props and
\* the handlers of its last render, until its exit animation ends, and only
\* then is the card of the current step mounted. exiting holds that last
\* render while an exit is running, and is empty otherwise.

\* What the handlers and props of a card read from its render: the step it
\* was rendered for, isStepComplete(step) (the disabled prop) and
\* showEmphasis (whether the emphasis textarea is rendered).
CurrentCard ==
  [step |-> step, complete |-> isStepComplete(step), showEmphasis |-> showEmphasis]

\* The card that is mounted.
Card == IF exiting = <<>> THEN CurrentCard ELSE exiting[1]

\* exiting after a handler has set step to newStep: a change of step starts
\* the exit of the mounted card; a card that is exiting already stays until
\* its exit ends.
ExitAfter(newStep) ==
  IF exiting # <<>> THEN exiting
  ELSE IF newStep # step THEN <<CurrentCard>>
  ELSE <<>>

\* Rendering conditions of the card footer (page.tsx 456-474), in the
\* render of the mounted card.

FooterShown == Card.step > 0 /\ Card.step < NumSteps - 2

AdvanceShown == FooterShown /\ Card.step < NumSteps - 2

AdvanceDisabled == ~Card.complete

----------------------------------------------------------------------------
\* Init: the useState initial values (page.tsx 24-35); no blur listener is
\* attached (analogiesRef.current is null while step 0 is shown) and no
\* timeout is scheduled.

\* What the handlers have done to the audio element behind audioRef
\* (page.tsx 44, 427-433) when they have not touched it: the last of play()
\* and pause() called on it, and the values last assigned to its
\* currentTime and playbackRate.
NoAudio == [command |-> "none", currentTime |-> <<>>, playbackRate |-> <<>>]

\* The useState initial values of the player (page.tsx 38-41); rates are
\* counted in tenths (1 is 10).
InitPlayback ==
  /\ isPlaying = FALSE
  /\ currentTime = 0
  /\ duration = 0
  /\ playbackRate = 10
  /\ nPlayPause = 0

\* No request is being handled.
NoRequest == [route |-> "", method |-> "", id |-> "", body |-> <<>>]
NoResponse == [kind |-> "none", status |-> 0, parsable |-> FALSE, json |-> <<>>]

ProxyIdle ==
  /\ req = NoRequest
  /\ pcProxy = "idle"
  /\ upstreamCalls = <<>>
  /\ response = NoResponse
  /\ res = <<>>

Init ==
  /\ InitPlayback
  /\ audio = NoAudio
  /\ ProxyIdle
  /\ step = 0
  /\ sources = <<>>
  /\ urls = <<>>
  /\ analogies = <<>>
  /\ emphasis = <<>>
  /\ style = ""
  /\ plan = ""
  /\ showEmphasis = FALSE
  /\ isGenerating = FALSE
  /\ audioUrl = ""
  /\ blurListener = <<>>
  /\ timeouts = <<>>
  /\ ret = <<>>
  /\ exiting = <<>>

----------------------------------------------------------------------------
\* The handlers of the mounted card. A handler of a card closes over the
\* step of the card's render (Card.step), which differs from step while the
\* card is exiting.

\* "Start Learning" (page.tsx 206).
StartLearning ==
  /\ Card.step = 0
  /\ step' = 1
  /\ exiting' = ExitAfter(1)
  /\ UNCHANGED <<sources, urls, analogies, emphasis, style, plan, showEmphasis,
                 isGenerating, audioUrl, blurListener, timeouts, ret,
                 playerVars, proxyVars>>

\* handleFileUpload (page.tsx 73-77), the file input of step 1.
handleFileUpload(files) ==
  /\ Card.step = 1
  /\ sources' = files
  /\ UNCHANGED <<step, urls, analogies, emphasis, style, plan, showEmphasis,
                 isGenerating, audioUrl, blurListener, timeouts, ret, exiting,
                 playerVars, proxyVars>>

\* onChange of the urls textarea (page.tsx 243-249).
setUrls(v) ==
  /\ Card.step = 1
  /\ urls' = v
  /\ UNCHANGED <<step, sources, analogies, emphasis, style, plan, showEmphasis,
                 isGenerating, audioUrl, blurListener, timeouts, ret, exiting,
                 playerVars, proxyVars>>

\* onChange of the analogies textarea (page.tsx 260-267) and the effect
\* that re-runs when analogies changed (page.tsx 50-67): it attaches to the
\* mounted textarea a blur listener that closes over the new value.
setAnalogies(v) ==
  /\ Card.step = 2
  /\ analogies' = v
  /\ blurListener' = IF v # analogies THEN <<v>> ELSE blurListener
  /\ UNCHANGED <<step, sources, urls, emphasis, style, plan, showEmphasis,
                 isGenerating, audioUrl, timeouts, ret, exiting,
                 playerVars, proxyVars>>

\* A blur handler that sets showEmphasis to the outcome of its test.
handleAnalogiesBlur_Assign ==
  /\ Card.step = 2
  /\ blurListener # <<>>
  /\ showEmphasis' = (trim(blurListener[1]) # <<>>)
  /\ UNCHANGED <<step, sources, urls, analogies, emphasis, style, plan,
                 isGenerating, audioUrl, blurListener, timeouts, ret, exiting,
                 playerVars, proxyVars>>

\* handleAnalogiesBlur (page.tsx 51-55): the listener attached to the
\* mounted textarea runs with the analogies value it closed over.
handleAnalogiesBlur ==
  /\ Card.step = 2
  /\ blurListener # <<>>
  /\ showEmphasis' = IF trim(blurListener[1]) # <<>> THEN TRUE ELSE showEmphasis
  /\ UNCHANGED <<step, sources, urls, analogies, emphasis, style, plan,
                 isGenerating, audioUrl, blurListener, timeouts, ret, exiting,
                 playerVars, proxyVars>>

\* onChange of the emphasis textarea, rendered only when showEmphasis
\* (page.tsx 270-286).
setEmphasis(v) ==
  /\ Card.step = 2
  /\ Card.showEmphasis
  /\ emphasis' = v
  /\ UNCHANGED <<step, sources, urls, analogies, style, plan, showEmphasis,
                 isGenerating, audioUrl, blurListener, timeouts, ret, exiting,
                 playerVars, proxyVars>>

\* RadioGroup onValueChange (page.tsx 294-309).
setStyle(v) ==
  /\ Card.step = 3
  /\ style' = v
  /\ UNCHANGED <<step, sources, urls, analogies, emphasis, plan, showEmphasis,
                 isGenerating, audioUrl, blurListener, timeouts, ret, exiting,
                 playerVars, proxyVars>>

\* "Select Stingy" / "Select Sigma" (page.tsx 333, 359).
setPlan(p) ==
  /\ Card.step = 4
  /\ plan' = p
  /\ UNCHANGED <<step, sources, urls, analogies, emphasis, style, showEmphasis,
                 isGenerating, audioUrl, blurListener, timeouts, ret, exiting,
                 playerVars, proxyVars>>

\* Previous button (page.tsx 458-463).
goPrevious ==
  /\ FooterShown
  /\ step' = Card.step - 1
  /\ plan' = IF Card.step = 4 THEN "" ELSE plan
  /\ exiting' = ExitAfter(Card.step - 1)
  /\ UNCHANGED <<sources, urls, analogies, emphasis, style, showEmphasis,
                 isGenerating, audioUrl, blurListener, timeouts, ret,
                 playerVars, proxyVars>>

\* A handleGenerate that stores the audio reference when it is clicked.
handleGenerate_SetsUrl ==
  /\ Len(timeouts) < MaxTimeouts
  /\ isGenerating' = TRUE
  /\ audioUrl' = GeneratedUrl
  /\ timeouts' = Append(timeouts, Card.step)
  /\ UNCHANGED <<step, sources, urls, analogies, emphasis, style, plan,
                 showEmphasis, blurListener, ret, exiting, playerVars, proxyVars>>

\* handleGenerate (page.tsx 83-91): sets isGenerating and schedules the
\* timeout, whose callback closes over the step of the card's render.
handleGenerate ==
  /\ Len(timeouts) < MaxTimeouts
  /\ isGenerating' = TRUE
  /\ timeouts' = Append(timeouts, Card.step)
  /\ UNCHANGED <<step, sources, urls, analogies, emphasis, style, plan,
                 showEmphasis, audioUrl, blurListener, ret, exiting,
                 playerVars, proxyVars>>

\* The onClick of the Next/Generate button (page.tsx 466).
AdvanceHandler ==
  IF Card.step = 4
  THEN handleGenerate
  ELSE /\ step' = Card.step + 1
       /\ exiting' = ExitAfter(Card.step + 1)
       /\ UNCHANGED <<sources, urls, analogies, emphasis, style, plan,
                      showEmphasis, isGenerating, audioUrl, blurListener,
                      timeouts, ret, playerVars, proxyVars>>

\* A click on the Next/Generate button (page.tsx 464-472): a disabled
\* button dispatches no click.
goNext ==
  /\ AdvanceShown
  /\ IF AdvanceDisabled THEN UNCHANGED vars ELSE AdvanceHandler

\* A timeout callback that also starts the playback.
GenerateTimeout_AutoPlay ==
  /\ timeouts # <<>>
  /\ isGenerating' = FALSE
  /\ audioUrl' = GeneratedUrl
  /\ step' = Head(timeouts) + 1
  /\ timeouts' = Tail(timeouts)
  /\ exiting' = ExitAfter(Head(timeouts) + 1)
  /\ isPlaying' = TRUE
  /\ UNCHANGED <<sources, urls, analogies, emphasis, style, plan,
                 showEmphasis, blurListener, ret, currentTime, duration,
                 playbackRate, audio, nPlayPause, proxyVars>>

\* The timeout callback of handleGenerate (page.tsx 86-90); timeouts of
\* equal delay fire in the order they were scheduled.
GenerateTimeout ==
  /\ timeouts # <<>>
  /\ isGenerating' = FALSE
  /\ audioUrl' = GeneratedUrl
  /\ step' = Head(timeouts) + 1
  /\ timeouts' = Tail(timeouts)
  /\ exiting' = ExitAfter(Head(timeouts) + 1)
  /\ UNCHANGED <<sources, urls, analogies, emphasis, style, plan,
                 showEmphasis, blurListener, ret, playerVars, proxyVars>>

\* The exit animation of the old card ends (page.tsx 441-447): the card is
\* unmounted, with its textarea and the blur listener on it, and the card
\* of the current step is mounted; the effect of page.tsx 50-67 does not
\* run, so a new textarea has no listener.
ExitComplete ==
  /\ exiting # <<>>
  /\ exiting' = <<>>
  /\ blurListener' = <<>>
  /\ UNCHANGED <<step, sources, urls, analogies, emphasis, style, plan,
                 showEmphasis, isGenerating, audioUrl, timeouts, ret,
                 playerVars, proxyVars>>

\* The actions a user triggers.
UserAction ==
  \/ StartLearning
  \/ \E files \in FileLists : handleFileUpload(files)
  \/ \E v \in TypedTexts : setUrls(v)
  \/ \E v \in TypedTexts : setAnalogies(v)
  \/ handleAnalogiesBlur
  \/ \E v \in TypedTexts : setEmphasis(v)
  \/ \E v \in podcastStyles : setStyle(v)
  \/ \E p \in Plans : setPlan(p)
  \/ goPrevious
  \/ goNext

Next ==
  \/ UserAction
  \/ GenerateTimeout
  \/ ExitComplete

Spec == Init /\ [][Next]_vars

\* The event loop runs a timeout callback once its delay has passed, and
\* an exit animation ends after its 0.3 s.
FairSpec ==
  Init /\ [][Next]_vars /\ WF_vars(GenerateTimeout) /\ WF_vars(ExitComplete)

----------------------------------------------------------------------------
\* isStepComplete as a function of the component state: every valuation of
\* the fields it reads, and every step index.

InitComplete ==
  /\ InitPlayback
  /\ audio = NoAudio
  /\ ProxyIdle
  /\ step = 0
  /\ sources \in FileLists
  /\ urls \in Texts
  /\ analogies \in Texts
  /\ emphasis \in Texts
  /\ style \in podcastStyles \cup {""}
  /\ plan \in Plans \cup {""}
  /\ showEmphasis \in BOOLEAN
  /\ isGenerating = FALSE
  /\ audioUrl = ""
  /\ blurListener = <<>>
  /\ timeouts = <<>>
  /\ ret = <<>>
  /\ exiting = <<>>

\* A call isStepComplete(stepIndex); ret records the argument and the
\* value returned.
CallIsStepComplete(stepIndex) ==
  /\ ret' = <<stepIndex, isStepComplete(stepIndex)>>
  /\ UNCHANGED <<step, sources, urls, analogies, emphasis, style, plan,
                 showEmphasis, isGenerating, audioUrl, blurListener, timeouts,
                 exiting, playerVars, proxyVars>>

NextComplete == \E stepIndex \in 0..(NumSteps - 1) : CallIsStepComplete(stepIndex)

SpecComplete == InitComplete /\ [][NextComplete]_vars

----------------------------------------------------------------------------
\* The handlers of the audio player (page.tsx 93-146) as functions of what
\* they read: the player state, their argument, and audioRef.current, which
\* is null or the audio element of page.tsx 427-433. Of the element the
\* handlers read currentTime and duration, inputs of the call, and on it
\* they call play() and pause() and assign currentTime and playbackRate,
\* which audio records; what the element does with them is not part of
\* the component. Times are whole seconds, as the slider (step={1})
\* produces them.

\* The values of audioRef.current.
NullRef == "null"
ElementRef == "HTMLAudioElement"
AudioRefs == {NullRef, ElementRef}

\* The times handed to handleSeek.
SeekTimes == (0 - MaxTime)..(2 * MaxTime)

\* The positions read from the element's currentTime.
Positions == 0..MaxTime

\* The durations read from the element's duration once its metadata is
\* loaded.
Durations == 1..MaxTime

\* The values of the speed select (page.tsx 399-402).
RateOptions == {"0.5", "1", "1.5", "2"}

\* parseFloat on the values of the speed select, in tenths.
parseFloat(str) ==
  CASE str = "0.5" -> 5
    [] str = "1" -> 10
    [] str = "1.5" -> 15
    [] str = "2" -> 20

\* A handlePlayPause that issues the command but keeps the flag.
handlePlayPause_NoFlip(current) ==
  IF current # NullRef
  THEN /\ nPlayPause < MaxCalls
       /\ audio' = [audio EXCEPT !.command = IF isPlaying THEN "pause" ELSE "play"]
       /\ nPlayPause' = nPlayPause + 1
       /\ UNCHANGED <<isPlaying, currentTime, duration, playbackRate, wizardVars, proxyVars>>
  ELSE UNCHANGED vars

\* handlePlayPause (page.tsx 96-105), with current the value of
\* audioRef.current.
handlePlayPause(current) ==
  IF current # NullRef
  THEN /\ nPlayPause < MaxCalls
       /\ audio' = [audio EXCEPT !.command = IF isPlaying THEN "pause" ELSE "play"]
       /\ isPlaying' = ~isPlaying
       /\ nPlayPause' = nPlayPause + 1
       /\ UNCHANGED <<currentTime, duration, playbackRate, wizardVars, proxyVars>>
  ELSE UNCHANGED vars

\* handleTimeUpdate (page.tsx 110-114), with read the value of
\* audioRef.current.currentTime.
handleTimeUpdate(current, read) ==
  IF current # NullRef
  THEN /\ currentTime' = read
       /\ UNCHANGED <<isPlaying, duration, playbackRate, audio, nPlayPause,
                      wizardVars, proxyVars>>
  ELSE UNCHANGED vars

\* handleLoadedMetadata (page.tsx 119-123), with read the value of
\* audioRef.current.duration.
handleLoadedMetadata(current, read) ==
  IF current # NullRef
  THEN /\ duration' = read
       /\ UNCHANGED <<isPlaying, currentTime, playbackRate, audio, nPlayPause,
                      wizardVars, proxyVars>>
  ELSE UNCHANGED vars

\* handleSeek (page.tsx 129-134): newTime goes unchanged to the element's
\* currentTime and to the currentTime state.
handleSeek(current, newTime) ==
  IF current # NullRef
  THEN /\ audio' = [audio EXCEPT !.currentTime = <<newTime>>]
       /\ currentTime' = newTime
       /\ UNCHANGED <<isPlaying, duration, playbackRate, nPlayPause,
                      wizardVars, proxyVars>>
  ELSE UNCHANGED vars

\* handlePlaybackRateChange (page.tsx 140-146).
handlePlaybackRateChange(current, newRate) ==
  LET rate == parseFloat(newRate)
  IN  /\ playbackRate' = rate
      /\ audio' = IF current # NullRef
                  THEN [audio EXCEPT !.playbackRate = <<rate>>]
                  ELSE audio
      /\ UNCHANGED <<isPlaying, currentTime, duration, nPlayPause,
                     wizardVars, proxyVars>>

NextPlayer ==
  \E current \in AudioRefs :
    \/ handlePlayPause(current)
    \/ \E read \in Positions : handleTimeUpdate(current, read)
    \/ \E read \in Durations : handleLoadedMetadata(current, read)
    \/ \E newTime \in SeekTimes : handleSeek(current, newTime)
    \/ \E newRate \in RateOptions : handlePlaybackRateChange(current, newRate)

SpecPlayer == Init /\ [][NextPlayer]_vars

----------------------------------------------------------------------------
\* formatTime (page.tsx 153-157) on whole numbers of seconds; a string is
\* the sequence of its characters.

DigitChars == <<"0", "1", "2", "3", "4", "5", "6", "7", "8", "9">>

\* Number.prototype.toString of a non-negative whole number.
RECURSIVE toString(_)
toString(n) ==
  IF n < 10 THEN <<DigitChars[n + 1]>>
  ELSE Append(toString(n \div 10), DigitChars[(n % 10) + 1])

\* String.prototype.padStart with a pad string of one character.
RECURSIVE padStart(_, _, _)
padStart(s, targetLength, padString) ==
  IF Len(s) >= targetLength THEN s
  ELSE padStart(<<padString>> \o s, targetLength, padString)

\* formatTime without the padding of the seconds.
formatTime_NoPad(time) ==
  LET minutes == time \div 60
      seconds == time % 60
  IN  toString(minutes) \o <<":">> \o toString(seconds)

formatTime(time) ==
  LET minutes == time \div 60
      seconds == time % 60
  IN  toString(minutes) \o <<":">> \o padStart(toString(seconds), 2, "0")

\* A call formatTime(time); ret records the argument and the string
\* returned.
CallFormatTime(time) ==
  /\ ret' = <<time, formatTime(time)>>
  /\ UNCHANGED <<step, sources, urls, analogies, emphasis, style, plan,
                 showEmphasis, isGenerating, audioUrl, blurListener, timeouts,
                 exiting, playerVars, proxyVars>>

NextFormat == \E time \in 0..MaxSeconds : CallFormatTime(time)

SpecFormat == Init /\ [][NextFormat]_vars

----------------------------------------------------------------------------
\* The proxy routes: pages/api/generate_podcast.js and the podcast_status
\* handler (page.tsx 486-503). A JSON object is the sequence of its
\* key/value pairs.

Routes == {"generate_podcast", "podcast_status"}
Methods == {"GET", "POST", "PUT", "DELETE"}
Ids == {"abc", "j1"}
Bodies == {<<>>, <<<<"plan", "sigma">>>>}

Requests == [route : Routes, method : Methods, id : Ids, body : Bodies]

\* Every route allowing POST.
AllowedMethod_PostOnly(route) == "POST"

\* The method each handler tests for (generate_podcast.js 4, page.tsx 491).
AllowedMethod(route) == IF route = "generate_podcast" THEN "POST" ELSE "GET"

\* Every route answering with the message of the generate route.
ErrorMessage_Copied(route) == "Failed to generate podcast"

\* The message of the catch branch (generate_podcast.js 16, page.tsx 497).
ErrorMessage(route) ==
  IF route = "generate_podcast"
  THEN "Failed to generate podcast"
  ELSE "Failed to fetch podcast status"

\* The fetch each handler issues (generate_podcast.js 6-12, page.tsx 493).
UpstreamRequest(r) ==
  IF r.route = "generate_podcast"
  THEN [url |-> <<"http://localhost:8000/generate_podcast">>,
        method |-> "POST", body |-> r.body]
  ELSE [url |-> <<"http://localhost:8000/podcast_status/", r.id>>,
        method |-> "GET", body |-> <<>>]

\* What the upstream can answer: a status and a body that parses as JSON
\* or does not.
UpstreamStatuses == {200, 404, 500}
JsonDocs == {<<<<"job_id", "j1">>>>, <<<<"status", "ready">>>>, <<<<"detail", "error">>>>}

UpstreamResponses ==
  {[kind |-> "response", status |-> st, parsable |-> TRUE, json |-> j] :
     st \in UpstreamStatuses, j \in JsonDocs}
  \cup
  {[kind |-> "response", status |-> st, parsable |-> FALSE, json |-> <<>>] :
     st \in UpstreamStatuses}

\* fetch rejected: the upstream could not be reached.
Rejected == [kind |-> "rejected", status |-> 0, parsable |-> FALSE, json |-> <<>>]

\* res.setHeader('Allow', [m]); res.status(405).end(`Method ${method} Not Allowed`)
MethodNotAllowed(r) ==
  [status |-> 405, headers |-> {<<"Allow", <<AllowedMethod(r.route)>>>>},
   kind |-> "text", json |-> <<>>, text |-> <<"Method ", r.method, " Not Allowed">>]

\* res.status(500).json({ error: message })
ErrorResponse(r) ==
  [status |-> 500, headers |-> {},
   kind |-> "json", json |-> <<<<"error", ErrorMessage(r.route)>>>>, text |-> <<>>]

\* res.status(200).json(data)
DataResponse(data) ==
  [status |-> 200, headers |-> {}, kind |-> "json", json |-> data, text |-> <<>>]

InitProxy ==
  /\ InitPlayback
  /\ audio = NoAudio
  /\ step = 0
  /\ sources = <<>>
  /\ urls = <<>>
  /\ analogies = <<>>
  /\ emphasis = <<>>
  /\ style = ""
  /\ plan = ""
  /\ showEmphasis = FALSE
  /\ isGenerating = FALSE
  /\ audioUrl = ""
  /\ blurListener = <<>>
  /\ timeouts = <<>>
  /\ ret = <<>>
  /\ exiting = <<>>
  /\ req \in Requests
  /\ pcProxy = "start"
  /\ upstreamCalls = <<>>
  /\ response = NoResponse
  /\ res = <<>>

\* The handler up to its first await (generate_podcast.js 4-12, 18-20;
\* page.tsx 491-493, 499-501).
HandlerEntry ==
  /\ pcProxy = "start"
  /\ IF req.method = AllowedMethod(req.route)
     THEN /\ upstreamCalls' = Append(upstreamCalls, UpstreamRequest(req))
          /\ pcProxy' = "fetch"
          /\ UNCHANGED res
     ELSE /\ res' = Append(res, MethodNotAllowed(req))
          /\ pcProxy' = "done"
          /\ UNCHANGED upstreamCalls
  /\ UNCHANGED <<req, response, wizardVars, playerVars>>

\* await fetch(...) resolves with the upstream's response.
FetchResolves(r) ==
  /\ pcProxy = "fetch"
  /\ response' = r
  /\ pcProxy' = "json"
  /\ UNCHANGED <<req, upstreamCalls, res, wizardVars, playerVars>>

\* await fetch(...) rejects: the catch branch answers.
FetchRejects ==
  /\ pcProxy = "fetch"
  /\ response' = Rejected
  /\ res' = Append(res, ErrorResponse(req))
  /\ pcProxy' = "done"
  /\ UNCHANGED <<req, upstreamCalls, wizardVars, playerVars>>

\* await response.json() resolves, then res.status(200).json(data).
JsonResolves ==
  /\ pcProxy = "json"
  /\ response.parsable
  /\ res' = Append(res, DataResponse(response.json))
  /\ pcProxy' = "done"
  /\ UNCHANGED <<req, upstreamCalls, response, wizardVars, playerVars>>

\* await response.json() rejects: the catch branch answers.
JsonRejects ==
  /\ pcProxy = "json"
  /\ ~response.parsable
  /\ res' = Append(res, ErrorResponse(req))
  /\ pcProxy' = "done"
  /\ UNCHANGED <<req, upstreamCalls, response, wizardVars, playerVars>>

NextProxy ==
  \/ HandlerEntry
  \/ \E r \in UpstreamResponses : FetchResolves(r)
  \/ FetchRejects
  \/ JsonResolves
  \/ JsonRejects

SpecProxy == InitProxy /\ [][NextProxy]_vars

----------------------------------------------------------------------------
\* Properties.

\* A text is blank when it is empty or holds white space only.
IsBlank(s) == \A i \in 1..Len(s) : IsWhiteSpace(s[i])

\* C1: at steps 1..4, while isStepComplete(step) is false, a click on the
\* Next/Generate button changes no state: neither step nor any field, and
\* it schedules no generation.
C1_DisabledAdvanceIsNoOp ==
  (step \in 1..4 /\ ~isStepComplete(step)) => ~ENABLED (goNext /\ vars' # vars)

\* C2: while a generation is pending (its timeout callback has not run),
\* step is 5.
C2_Step5WhilePending == timeouts # <<>> => step = 5

\* C3: once a generation has been started, the wizard eventually shows
\* step 6 with audioUrl set.
C3_EventuallyResult == (timeouts # <<>>) ~> (step = 6 /\ audioUrl # "")

\* C4: while a generation is pending, the only transition that changes
\* step or a form field is the timeout callback.
C4_LockedWhilePending ==
  [][(timeouts # <<>> /\ <<step, formFields>>' # <<step, formFields>>)
       => GenerateTimeout]_vars

\* C5: in every transition that increases step, the completion predicate
\* of the step being left holds before the transition.
C5_AdvanceOnlyWhenComplete == [][step' > step => isStepComplete(step)]_vars

\* C6: Previous at step 4 yields step 3 with plan empty; Previous at steps
\* 1..3 decrements step by one and leaves plan unchanged.
C6_PreviousResetsPlan ==
  [][goPrevious =>
       /\ step \in 1..4
       /\ step = 4 => (step' = 3 /\ plan' = "")
       /\ step \in 1..3 => (step' = step - 1 /\ plan' = plan)]_vars

\* C7: showEmphasis never goes from true to false, and it goes from false
\* to true only in a blur of the analogies textarea with analogies
\* non-blank.
C7_ShowEmphasisLatch ==
  [][/\ showEmphasis => showEmphasis'
     /\ (~showEmphasis /\ showEmphasis') => (handleAnalogiesBlur /\ ~IsBlank(analogies))]_vars

\* C7 witness: showEmphasis is true although analogies has been cleared
\* since, and the textarea's blur listener closes over the blank value.
C7_Witness == showEmphasis /\ IsBlank(analogies) /\ blurListener = <<analogies>>

\* C8: at steps 0, 5 and 6 neither Previous nor Next/Generate is
\* available, and at steps 5 and 6 no user action changes step.
C8_NavigationOnlyInSteps1To4 ==
  /\ step \notin 1..4 => (~ENABLED goPrevious /\ ~ENABLED goNext)
  /\ step \in {5, 6} => ~ENABLED (UserAction /\ step' # step)

\* The table of completion predicates.
StepTable(k) ==
  CASE k = 0 -> TRUE
    [] k = 1 -> Len(sources) >= 1 \/ ~IsBlank(urls)
    [] k = 2 -> ~IsBlank(analogies) /\ (~showEmphasis \/ ~IsBlank(emphasis))
    [] k = 3 -> style # ""
    [] k = 4 -> plan # ""
    [] k \in {5, 6} -> FALSE

\* C9: isStepComplete(k) returns the value of the table for every step
\* index k in 0..6 and every valuation of the fields.
C9_IsStepCompleteTable == ret # <<>> => ret[2] = StepTable(ret[1])

\* C9 witness: isStepComplete(2) returned false with analogies non-blank
\* because the emphasis field is shown and holds white space only.
C9_Witness ==
  /\ ret = <<2, FALSE>>
  /\ ~IsBlank(analogies)
  /\ showEmphasis
  /\ emphasis # <<>>
  /\ IsBlank(emphasis)

\* C10: at steps 1..3 with the step complete, a click on Next sets step to
\* step + 1 and changes no form field; at step 1 with no sources the click
\* changes nothing while urls is blank and leads to step 2 once urls is
\* non-blank.
C10_AdvanceByOne ==
  /\ (step \in 1..3 /\ isStepComplete(step)) =>
        /\ ENABLED (goNext /\ step' = step + 1 /\ formFields' = formFields)
        /\ ~ENABLED (goNext /\ ~(step' = step + 1 /\ formFields' = formFields))
  /\ (step = 1 /\ sources = <<>>) =>
        IF IsBlank(urls)
        THEN ~ENABLED (goNext /\ vars' # vars)
        ELSE ENABLED (goNext /\ step' = 2)

\* max(0, min(t, d)).
Clamp(t, d) == IF t < 0 THEN 0 ELSE IF t > d THEN d ELSE t

C12_PlayPauseToggles ==
  /\ [](isPlaying <=> nPlayPause % 2 = 1)
  /\ [][\A current \in AudioRefs :
          handlePlayPause(current) =>
            IF current = ElementRef
            THEN /\ isPlaying' = ~isPlaying
                 /\ audio'.command = (IF isPlaying THEN "pause" ELSE "play")
            ELSE UNCHANGED <<playback, audio>>]_vars

\* C12 witness: three calls were made on an element, the last one issued
\* play.
C12_Witness ==
  /\ nPlayPause = 3
  /\ isPlaying
  /\ audio.command = "play"

\* The value of a string of decimal digits.
RECURSIVE DecimalValue(_)
DecimalValue(s) ==
  IF s = <<>> THEN 0
  ELSE 10 * DecimalValue(SubSeq(s, 1, Len(s) - 1))
       + (CHOOSE d \in 0..9 : DigitChars[d + 1] = s[Len(s)])

IsDigits(s) == \A i \in 1..Len(s) : \E d \in 0..9 : DigitChars[d + 1] = s[i]

\* C13: formatTime(s) is the decimal of floor(s / 60) without padding, a
\* colon, and floor(s mod 60) as exactly two digits in 00..59;
\* formatTime(0) = "0:00", formatTime(65) = "1:05", formatTime(599) = "9:59".
C13_FormatTime ==
  ret # <<>> =>
    LET s == ret[1]
        str == ret[2]
        n == Len(str)
        mins == SubSeq(str, 1, n - 3)
        secs == SubSeq(str, n - 1, n)
    IN  /\ n >= 4
        /\ str[n - 2] = ":"
        /\ IsDigits(mins) /\ IsDigits(secs)
        /\ Len(mins) = 1 \/ mins[1] # "0"
        /\ DecimalValue(mins) = s \div 60
        /\ DecimalValue(secs) = s % 60
        /\ DecimalValue(secs) \in 0..59
        /\ s = 0 => str = <<"0", ":", "0", "0">>
        /\ s = 65 => str = <<"1", ":", "0", "5">>
        /\ s = 599 => str = <<"9", ":", "5", "9">>

\* C13 witness: formatTime(65) returned "1:05".
C13_Witness == ret = <<65, <<"1", ":", "0", "5">>>>

\* The method each route documents.
PermittedMethod(route) ==
  CASE route = "generate_podcast" -> "POST"
    [] route = "podcast_status" -> "GET"

\* C14: a request with a method other than the route's documented one is
\* answered 405 with an Allow header naming that method, and no upstream
\* request is made.
C14_MethodNotAllowed ==
  (req.route \in Routes /\ req.method # PermittedMethod(req.route)) =>
    /\ upstreamCalls = <<>>
    /\ pcProxy \in {"start", "done"}
    /\ pcProxy = "done" =>
         /\ Len(res) = 1
         /\ res[1].status = 405
         /\ res[1].headers = {<<"Allow", <<PermittedMethod(req.route)>>>>}

\* C14 witness: a PUT to generate_podcast has been answered 405.
C14_Witness ==
  /\ req.route = "generate_podcast"
  /\ req.method = "PUT"
  /\ pcProxy = "done"
  /\ Len(res) = 1
  /\ res[1].status = 405

\* The error message each route documents.
DocumentedError(route) ==
  CASE route = "generate_podcast" -> "Failed to generate podcast"
    [] route = "podcast_status" -> "Failed to fetch podcast status"

\* C15: for a request with the permitted method, a failed upstream fetch
\* (rejected, or a body that does not parse) gives exactly one response,
\* 500 with the JSON body {error: message}; a successful exchange gives
\* exactly one response, with the upstream's JSON body.
C15_OneResponse ==
  (req.route \in Routes /\ req.method = PermittedMethod(req.route)) =>
    IF pcProxy = "done"
    THEN /\ Len(res) = 1
         /\ res[1].kind = "json"
         /\ IF response.kind = "rejected" \/ ~response.parsable
            THEN /\ res[1].status = 500
                 /\ res[1].json = <<<<"error", DocumentedError(req.route)>>>>
            ELSE res[1].json = response.json
    ELSE res = <<>>

\* C15 witness: a GET to podcast_status whose upstream was unreachable has
\* been answered 500.
C15_Witness ==
  /\ req.route = "podcast_status"
  /\ req.method = "GET"
  /\ pcProxy = "done"
  /\ response.kind = "rejected"
  /\ Len(res) = 1
  /\ res[1].status = 500

\* C16: a POST to generate_podcast whose upstream answered with a status
\* outside 200..299 is never answered 200.
C16_Non2xxIsError ==
  (/\ req.route = "generate_podcast"
   /\ response.kind = "response"
   /\ response.status \notin 200..299
   /\ pcProxy = "done")
    => res[1].status # 200

\* C17: every wizard transition (Start, the field edits, the upload, the
\* blur, Previous, Next/Generate and the timeout callback) leaves
\* isPlaying, currentTime, duration and playbackRate unchanged.
C17_WizardKeepsPlayback ==
  [][(UserAction \/ GenerateTimeout) => UNCHANGED playback]_vars

\* C17 witness: a generation has completed and another is pending, after
\* every kind of wizard action on the way, and the playback fields hold
\* their initial values.
C17_Witness ==
  /\ step = 5
  /\ audioUrl # ""
  /\ timeouts # <<>>
  /\ showEmphasis
  /\ playback = <<FALSE, 0, 0, 10>>

\* C18: audioUrl is empty at the start, changes only in the timeout
\* callback of a generation, and once non-empty is never emptied.
C18_AudioUrlOnlyByCompletion ==
  /\ audioUrl = ""
  /\ [][/\ audioUrl' # audioUrl => GenerateTimeout
        /\ audioUrl # "" => audioUrl' # ""]_vars

\* C18 witness: a generation has been started and has not completed, and
\* audioUrl is still empty.
C18_Witness == audioUrl = "" /\ isGenerating /\ timeouts # <<>>

\* C19: at most one generation timeout is outstanding at any time.
C19_OneGenerationInFlight == Len(timeouts) <= 1

\* C20: whenever step is 5 or 6, plan is non-empty and the completion
\* predicates of steps 1, 2 and 3 hold.
C20_InputsCompleteAtResult ==
  step \in {5, 6} =>
    /\ plan # ""
    /\ isStepComplete(1)
    /\ isStepComplete(2)
    /\ isStepComplete(3)

\* C21: whenever step is k in 2..4, the completion predicates of all the
\* steps 1..k-1 before it hold.
C21_EarlierStepsComplete ==
  step \in 2..4 => \A j \in 1..(step - 1) : isStepComplete(j)

====
